---- MODULE Spec2Model ----
(***************************************************************************)
(* Model of hover's packaging commands (cmd/packaging.go): init-packaging  *)
(* and build for the formats linux-snap and linux-deb.                     *)
(*                                                                         *)
(* Encoding of Go values:                                                  *)
(*   string     a sequence of tokens (TLA+ strings).  Project names are    *)
(*              spelled character by character; fixed words of the program *)
(*              ("DEBIAN", ".desktop", "Package: ") are one token each.    *)
(*              Concatenation is \o, "" is << >>.                          *)
(*   path       a sequence of path elements (strings), relative to the     *)
(*              root it lives under (a format's config directory, a        *)
(*              staging directory, an output directory).                   *)
(*   directory  a record [kind, dirs, files]: kind is "none" (nothing at   *)
(*              the root path), "file" or "dir"; dirs the set of           *)
(*              sub-directory paths; files a function path -> file.        *)
(***************************************************************************)
EXTENDS Naturals, Sequences, FiniteSets, TLC

\* ------------------------------------------------------------------ bounds
\* Commands (init-packaging and build invocations, and changes made outside
\* the program: pubspec and config tree edits) per behaviour.
MaxCmds == 3
\* Injected I/O failures (a step failing although its inputs are in order).
MaxFaults == 1
\* Length of the strings removeDashesAndUnderscores is applied to on its own.
MaxStrLen == 3

\* ----------------------------------------------------------- environment
Versions == << <<"1.0.0">>, <<"1.0.1">> >>
ProjectNames == { <<"a", "b">>, <<"a", "-", "b", "_">> }
Authors == { << >>, <<"bob">> }
HostOSes == { <<"linux">>, <<"darwin">> }
OSUser == <<"alice">>
Description == <<"demo">>
GOARCH == <<"amd64">>

LinuxSnap == <<"linux", "-", "snap">>
LinuxDeb == <<"linux", "-", "deb">>
Formats == {LinuxSnap, LinuxDeb}

\* Characters of the arguments of removeDashesAndUnderscores: the two it
\* removes and two it keeps.
StrAlphabet == {"a", "b", "-", "_"}
Strings == UNION { [1..n -> StrAlphabet] : n \in 0..MaxStrLen }

linuxPackagingDependencies ==
    << <<"libx11-6">>, <<"libxrandr2">>, <<"libxcursor1">>, <<"libxinerama1">> >>

\* ------------------------------------------------------- string helpers
\* strings.ReplaceAll(s, old, new) for a one-token old.
RECURSIVE ReplaceAll(_, _, _)
ReplaceAll(s, old, new) ==
    IF s = << >> THEN << >>
    ELSE IF Head(s) = old THEN new \o ReplaceAll(Tail(s), old, new)
    ELSE <<Head(s)>> \o ReplaceAll(Tail(s), old, new)

\* removeDashesAndUnderscores with the second ReplaceAll left out.
removeDashesAndUnderscores_DashesOnly(projectName) ==
    ReplaceAll(projectName, "-", << >>)

removeDashesAndUnderscores(projectName) ==
    ReplaceAll(ReplaceAll(projectName, "-", << >>), "_", << >>)

\* strings.Split(s, sep)[0]: everything before the first sep.
RECURSIVE SplitFirst(_, _)
SplitFirst(s, sep) ==
    IF s = << >> \/ Head(s) = sep THEN << >>
    ELSE <<Head(s)>> \o SplitFirst(Tail(s), sep)

\* strings.Join(elems, sep)
RECURSIVE JoinStrings(_, _)
JoinStrings(elems, sep) ==
    IF elems = << >> THEN << >>
    ELSE IF Len(elems) = 1 THEN Head(elems)
    ELSE Head(elems) \o <<sep>> \o JoinStrings(Tail(elems), sep)

\* filepath.Join: empty elements are ignored.
PathJoin(elems) == SelectSeq(elems, LAMBDA e : e # << >>)

\* --------------------------------------------------------- directories
NoFile == [x \in {} |-> 0]
EmptyTree == [kind |-> "none", dirs |-> {}, files |-> NoFile]
EmptyDir == [kind |-> "dir", dirs |-> {}, files |-> NoFile]
PlainFile == [kind |-> "file", dirs |-> {}, files |-> NoFile]

Prefixes(p) == { SubSeq(p, 1, n) : n \in 1..Len(p) }
Parent(p) == SubSeq(p, 1, Len(p) - 1)

IsDir(t, p) == t.kind = "dir" /\ (p = << >> \/ p \in t.dirs)
IsFile(t, p) == IF p = << >> THEN t.kind = "file" ELSE p \in DOMAIN t.files
Exists(t, p) == IF p = << >> THEN t.kind # "none" ELSE (p \in t.dirs \/ p \in DOMAIN t.files)

\* os.MkdirAll(p): possible unless a file is in the way.
CanMkdirAll(t, p) ==
    /\ t.kind # "file"
    /\ \A q \in Prefixes(p) : q \notin DOMAIN t.files
MkdirAll(t, p) == [t EXCEPT !.kind = "dir", !.dirs = @ \cup Prefixes(p)]

\* os.Create(p): the parent must be a directory and p must not be one;
\* an existing file is truncated.
CanCreate(t, p) == p # << >> /\ IsDir(t, Parent(p)) /\ ~IsDir(t, p)
WithFile(t, p, f) ==
    [t EXCEPT !.files = [q \in DOMAIN @ \cup {p} |-> IF q = p THEN f ELSE @[q]]]
Create(t, p) == WithFile(t, p, [lines |-> << >>, mode |-> "0666"])
Append_(t, p, ls) == [t EXCEPT !.files[p].lines = @ \o ls]
Chmod(t, p, m) == [t EXCEPT !.files[p].mode = m]

\* copy.Copy(src, dest): recursive copy of src onto dest (created when
\* missing); files of the same path are overwritten.
CopyInto(src, t, dest) ==
    LET moved == { dest \o p : p \in DOMAIN src.files }
    IN  [kind |-> "dir",
         dirs |-> t.dirs \cup Prefixes(dest) \cup { dest \o d : d \in src.dirs },
         files |-> [q \in DOMAIN t.files \cup moved |->
                      IF q \in moved
                      THEN src.files[SubSeq(q, Len(dest) + 1, Len(q))]
                      ELSE t.files[q]]]

\* ------------------------------------------------------ inputs of a build
\* filepath.Join(buildPath, "assets") and outputDirectoryPath("linux"): the
\* asset bundle and the compiled output, present when build runs.
AssetsTree ==
    [kind |-> "dir", dirs |-> {},
     files |-> [p \in { << <<"icon.png">> >> } |-> [lines |-> << <<"png">> >>, mode |-> "0644"]]]
BuildOutputTree(projectName) ==
    [kind |-> "dir", dirs |-> {},
     files |-> [p \in { <<projectName>> } |-> [lines |-> << <<"elf">> >>, mode |-> "0755"]]]

\* ------------------------------------------------------------ the program
\* A function body is its sequence of fallible steps; every step is
\* followed in the source by `if err != nil { ...; os.Exit(1) }`.
St(op, arg) == [op |-> op, arg |-> arg]

initLinuxSnap ==
    << St("assertCorrectOS", ""),
       St("createPackagingFormatDirectory", ""),
       St("mkdirAll", "snapLocal"),
       St("create", "snapcraft"), St("write", "snapcraft"), St("close", "snapcraft"),
       St("create", "desktop"), St("write", "desktop"), St("close", "desktop"),
       St("printInitFinished", "") >>

\* initLinuxDeb resolving the author after the config directory is made.
initLinuxDeb_AuthorAfterDir ==
    << St("assertCorrectOS", ""),
       St("createPackagingFormatDirectory", ""),
       St("author", ""),
       St("mkdirAll", "DEBIAN"), St("mkdirAll", "bin"), St("mkdirAll", "applications"),
       St("create", "control"), St("write", "control"), St("close", "control"),
       St("create", "bin"), St("write", "bin"), St("close", "bin"), St("chmod", "bin"),
       St("create", "desktop"), St("write", "desktop"), St("close", "desktop"),
       St("printInitFinished", "") >>

initLinuxDeb ==
    << St("assertCorrectOS", ""),
       St("author", ""),
       St("createPackagingFormatDirectory", ""),
       St("mkdirAll", "DEBIAN"), St("mkdirAll", "bin"), St("mkdirAll", "applications"),
       St("create", "control"), St("write", "control"), St("close", "control"),
       St("create", "bin"), St("write", "bin"), St("close", "bin"), St("chmod", "bin"),
       St("create", "desktop"), St("write", "desktop"), St("close", "desktop"),
       St("printInitFinished", "") >>

\* buildLinuxSnap with the staging directory removed before the move.
buildLinuxSnap_RemoveBeforeRename ==
    << St("assertCorrectOS", ""),
       St("lookPath", "snapcraft"),
       St("getTemporaryBuildDirectory", ""),
       St("copy", "assets"), St("copy", "build"), St("copy", "config"),
       St("run", "snapcraft"),
       St("removeAll", ""),
       St("rename", "") >>

buildLinuxSnap ==
    << St("assertCorrectOS", ""),
       St("lookPath", "snapcraft"),
       St("getTemporaryBuildDirectory", ""),
       St("copy", "assets"), St("copy", "build"), St("copy", "config"),
       St("run", "snapcraft"),
       St("rename", ""),
       St("removeAll", "") >>

\* buildLinuxDeb with the staging directory made before dpkg-deb is looked up.
buildLinuxDeb_TmpBeforeLookPath ==
    << St("assertCorrectOS", ""),
       St("getTemporaryBuildDirectory", ""),
       St("lookPath", "dpkg-deb"),
       St("copy", "build"), St("copy", "config"),
       St("run", "dpkg-deb"),
       St("rename", ""),
       St("removeAll", "") >>

\* buildLinuxDeb without the final os.RemoveAll(tmpPath).
buildLinuxDeb_NoCleanup ==
    << St("assertCorrectOS", ""),
       St("lookPath", "dpkg-deb"),
       St("getTemporaryBuildDirectory", ""),
       St("copy", "build"), St("copy", "config"),
       St("run", "dpkg-deb"),
       St("rename", "") >>

buildLinuxDeb ==
    << St("assertCorrectOS", ""),
       St("lookPath", "dpkg-deb"),
       St("getTemporaryBuildDirectory", ""),
       St("copy", "build"), St("copy", "config"),
       St("run", "dpkg-deb"),
       St("rename", ""),
       St("removeAll", "") >>

\* The cobra commands: `hover init-packaging <format>` ...
initLinuxSnapCmd ==
    << St("getPubSpec", ""), St("assertHoverInitialized", "") >> \o initLinuxSnap
initLinuxDebCmd ==
    << St("getPubSpec", ""), St("assertHoverInitialized", "") >> \o initLinuxDeb
\* ... and `hover build <format>`, which guards the build with
\* assertPackagingFormatInitialized.
buildLinuxSnapCmd ==
    << St("getPubSpec", ""), St("assertHoverInitialized", ""),
       St("assertPackagingFormatInitialized", "") >> \o buildLinuxSnap
buildLinuxDebCmd ==
    << St("getPubSpec", ""), St("assertHoverInitialized", ""),
       St("assertPackagingFormatInitialized", "") >> \o buildLinuxDeb

Program(op, f) ==
    IF op = "init"
    THEN (IF f = LinuxSnap THEN initLinuxSnapCmd ELSE initLinuxDebCmd)
    ELSE (IF f = LinuxSnap THEN buildLinuxSnapCmd ELSE buildLinuxDebCmd)

\* ------------------------------------------------- paths the program uses
\* Directories created by init, relative to packagingFormatPath(format).
DirPath(arg) ==
    CASE arg = "snapLocal" -> PathJoin(<< <<"snap">>, <<"local">> >>)
      [] arg = "DEBIAN" -> PathJoin(<< <<"DEBIAN">> >>)
      [] arg = "bin" -> PathJoin(<< <<"usr">>, <<"bin">> >>)
      [] arg = "applications" -> PathJoin(<< <<"usr">>, <<"share">>, <<"applications">> >>)

\* Files created by init, relative to packagingFormatPath(format).
FilePath(f, arg, projectName) ==
    CASE arg = "snapcraft" -> PathJoin(<< <<"snap">>, <<"snapcraft.yaml">> >>)
      [] arg = "control" -> PathJoin(DirPath("DEBIAN") \o << <<"control">> >>)
      [] arg = "bin" ->
           PathJoin(DirPath("bin") \o << removeDashesAndUnderscores(projectName) >>)
      [] arg = "desktop" /\ f = LinuxSnap ->
           PathJoin(DirPath("snapLocal") \o << projectName \o <<".desktop">> >>)
      [] arg = "desktop" /\ f = LinuxDeb ->
           PathJoin(DirPath("applications") \o << projectName \o <<".desktop">> >>)

\* --------------------------------------------------- scaffolded contents
Dependencies ==
    [i \in 1..Len(linuxPackagingDependencies) |->
        <<"      - ">> \o linuxPackagingDependencies[i]]

snapcraftFileContent(projectName, ps) ==
    << <<"name: ">> \o removeDashesAndUnderscores(projectName),
       <<"base: core18">>,
       <<"version: '">> \o ps.Version \o <<"'">>,
       <<"summary: ">> \o ps.Description,
       <<"description: |">>,
       <<"  ">> \o ps.Description,
       <<"confinement: devmode">>,
       <<"grade: devel">>,
       <<"apps:">>,
       <<"  ">> \o removeDashesAndUnderscores(projectName) \o <<":">>,
       <<"    command: ">> \o projectName,
       <<"    desktop: local/">> \o projectName \o <<".desktop">>,
       <<"parts:">>,
       <<"  desktop:">>,
       <<"    plugin: dump">>,
       <<"    source: snap">>,
       <<"  assets:">>,
       <<"    plugin: dump">>,
       <<"    source: assets">>,
       <<"  app:">>,
       <<"    plugin: dump">>,
       <<"    source: build">>,
       <<"    stage-packages:">> >> \o Dependencies

snapDesktopFileContent(projectName, ps) ==
    << <<"[Desktop Entry]">>,
       <<"Encoding=UTF-8">>,
       <<"Version=">> \o ps.Version,
       <<"Type=Application">>,
       <<"Terminal=false">>,
       <<"Exec=/">> \o projectName,
       <<"Name=">> \o projectName,
       <<"Icon=/icon.png">> >>

\* `author` is the local variable of initLinuxDeb (the pubspec author, or
\* the OS user name when that is empty); the Maintainer line is built from
\* getPubSpec().Author.
controlFileContent(projectName, ps, author) ==
    << <<"Package: ">> \o removeDashesAndUnderscores(projectName),
       <<"Architecture: ">> \o GOARCH,
       <<"Maintainer: @">> \o ps.Author,
       <<"Priority: optional">>,
       <<"Version: ">> \o ps.Version,
       <<"Description: ">> \o ps.Description,
       <<"Depends: ">> \o JoinStrings(linuxPackagingDependencies, ",") >>

binFileContent(projectName) ==
    << <<"#!/bin/sh">>,
       <<"/usr/lib/">> \o projectName \o <<"/">> \o projectName >>

debDesktopFileContent(projectName, ps) ==
    << <<"[Desktop Entry]">>,
       <<"Encoding=UTF-8">>,
       <<"Version=">> \o ps.Version,
       <<"Type=Application">>,
       <<"Terminal=false">>,
       <<"Exec=/usr/bin/">> \o projectName,
       <<"Name=">> \o projectName,
       <<"Icon=/usr/lib/">> \o projectName \o <<"/assets/icon.png">> >>

FileContent(f, arg, projectName, ps, author) ==
    CASE arg = "snapcraft" -> snapcraftFileContent(projectName, ps)
      [] arg = "control" -> controlFileContent(projectName, ps, author)
      [] arg = "bin" -> binFileContent(projectName)
      [] arg = "desktop" /\ f = LinuxSnap -> snapDesktopFileContent(projectName, ps)
      [] arg = "desktop" /\ f = LinuxDeb -> debDesktopFileContent(projectName, ps)

\* ------------------------------------------------------ names of a build
\* The file the native packager leaves in the staging root ...
snapFileName(name, version) ==
    name \o <<"_">> \o version \o <<"_">> \o GOARCH \o <<".snap">>
\* ... and the canonical file name under outputDirectoryPath(format).
outputFileName(f, projectName) ==
    removeDashesAndUnderscores(projectName) \o <<"_">> \o GOARCH
        \o (IF f = LinuxSnap THEN <<".snap">> ELSE <<".deb">>)
\* The first argument of os.Rename, relative to tmpPath.
renameSource(f, projectName, ps) ==
    IF f = LinuxSnap
    THEN PathJoin(<< snapFileName(removeDashesAndUnderscores(projectName), ps.Version) >>)
    ELSE PathJoin(<< outputFileName(f, projectName) >>)
\* CopyDest with the deb build output put under build/ like the snap one.
CopyDest_BuildDir(f, arg, projectName) ==
    CASE arg = "assets" -> PathJoin(<< <<"assets">> >>)
      [] arg = "build" -> PathJoin(<< <<"build">> >>)
      [] arg = "config" -> PathJoin(<< >>)

\* Destination of each staging copy, relative to tmpPath.
CopyDest(f, arg, projectName) ==
    CASE arg = "assets" -> PathJoin(<< <<"assets">> >>)
      [] arg = "build" /\ f = LinuxSnap -> PathJoin(<< <<"build">> >>)
      [] arg = "build" /\ f = LinuxDeb -> PathJoin(<< <<"usr">>, <<"lib">>, projectName >>)
      [] arg = "config" -> PathJoin(<< >>)

\* ----------------------------------------------------- native packagers
\* snapcraft reads snap/snapcraft.yaml in its working directory and leaves
\* <name>_<version>_<arch>.snap there; dpkg-deb --build . <file> reads
\* DEBIAN/control and writes <file>.  Either needs its manifest complete.
ManifestPath(f) == IF f = LinuxSnap THEN FilePath(f, "snapcraft", << >>)
                   ELSE FilePath(f, "control", << >>)
ManifestLen(f) == IF f = LinuxSnap THEN Len(snapcraftFileContent(<< >>, [Version |-> << >>, Description |-> << >>]))
                  ELSE Len(controlFileContent(<< >>, [Version |-> << >>, Description |-> << >>, Author |-> << >>], << >>))
CanPackage(f, t) ==
    /\ IsFile(t, ManifestPath(f))
    /\ Len(t.files[ManifestPath(f)].lines) >= ManifestLen(f)
PackagedFile(f, t, projectName) ==
    LET m == t.files[ManifestPath(f)].lines
    IN  IF f = LinuxSnap
        THEN PathJoin(<< snapFileName(Tail(m[1]), <<m[3][2]>>) >>)
        ELSE PathJoin(<< outputFileName(f, projectName) >>)
Package(f, t, projectName) ==
    LET m == t.files[ManifestPath(f)].lines
    IN  WithFile(t, PackagedFile(f, t, projectName),
                 [lines |-> <<m[1], IF f = LinuxSnap THEN m[3] ELSE m[5]>>, mode |-> "0644"])

\* ------------------------------------------------------------------ state
VARIABLES
    goos,       \* runtime.GOOS
    pubspec,    \* what getPubSpec() returns: [Name, Version, Author, Description]
    cfg,        \* format -> directory at packagingFormatPath(format)
    tmp,        \* temp-dir name -> [owner, tree]; owner is the command that made it
    out,        \* format -> directory at outputDirectoryPath(format)
    cmd,        \* the command running or last run: [op, fmt]
    pc,         \* index of the next step of the command; 0 when no command runs
    exitCode,   \* exit status of the last finished command
    log,        \* steps the command has executed: [step, ok]
    stdout,     \* messages the command has printed
    tmpPath,    \* local tmpPath of build (0 before getTemporaryBuildDirectory)
    author,     \* local author of initLinuxDeb
    ncmds,      \* commands started so far
    nfaults,    \* I/O failures injected so far
    pre,        \* the file system when the command started: [cfg, tmp, out]
    inited,     \* format -> an init of it has exited 0
    okBuilds,   \* format -> the builds (command numbers) that exited 0
    strIn,      \* the argument removeDashesAndUnderscores is called with
    strOut      \* what the calls on strIn, and then on the result, returned

vars == << goos, pubspec, cfg, tmp, out, cmd, pc, exitCode, log, stdout,
           tmpPath, author, ncmds, nfaults, pre, inited, okBuilds, strIn, strOut >>

fsVars == << cfg, tmp, out >>
envVars == << goos, pubspec >>
strVars == << strIn, strOut >>

\* Names ioutil.TempDir can hand out: a command makes at most one directory,
\* so a fresh name is always left.
TmpNames == 1..MaxCmds
NoTmp == [owner |-> 0, tree |-> EmptyTree]
FreeTmp == { i \in TmpNames : tmp[i].tree.kind = "none" }

Init ==
    /\ goos \in HostOSes
    /\ pubspec \in [Name : ProjectNames, Version : {Versions[1]},
                    Author : Authors, Description : {Description}]
    /\ cfg = [f \in Formats |-> EmptyTree]
    /\ tmp = [i \in TmpNames |-> NoTmp]
    /\ out = [f \in Formats |-> EmptyDir]
    /\ cmd = [op |-> "none", fmt |-> LinuxSnap]
    /\ pc = 0
    /\ exitCode = 0
    /\ log = << >>
    /\ stdout = {}
    /\ tmpPath = 0
    /\ author = << >>
    /\ ncmds = 0
    /\ nfaults = 0
    /\ pre = [cfg |-> cfg, tmp |-> tmp, out |-> out]
    /\ inited = [f \in Formats |-> FALSE]
    /\ okBuilds = [f \in Formats |-> {}]
    /\ strIn = << >>
    /\ strOut = << >>

\* ------------------------------------------------------- control of a run
Prog == Program(cmd.op, cmd.fmt)
Cur == Prog[pc]
At(op) == pc > 0 /\ Cur.op = op
CanFault == nfaults < MaxFaults

\* ExitOnError with the error of os.Chmod only reported.
ExitOnError_ChmodIgnored(step) == step.op # "chmod"

\* Every error branch of the source ends in os.Exit(1).
ExitOnError(step) == TRUE

\* The step succeeded: go on with the next one; after the last one the
\* command returns and the process exits 0.
Proceed ==
    /\ log' = Append(log, [step |-> Cur, ok |-> TRUE])
    /\ IF pc < Len(Prog)
       THEN /\ pc' = pc + 1
            /\ UNCHANGED << exitCode, inited, okBuilds >>
       ELSE /\ pc' = 0
            /\ UNCHANGED exitCode
            /\ inited' = IF cmd.op = "init" THEN [inited EXCEPT ![cmd.fmt] = TRUE]
                         ELSE inited
            /\ okBuilds' = IF cmd.op = "build"
                           THEN [okBuilds EXCEPT ![cmd.fmt] = @ \cup {ncmds}]
                           ELSE okBuilds

\* The step failed: the message is printed and the process exits 1.
Fail ==
    /\ log' = Append(log, [step |-> Cur, ok |-> FALSE])
    /\ IF ExitOnError(Cur)
       THEN /\ pc' = 0
            /\ exitCode' = 1
            /\ UNCHANGED << inited, okBuilds >>
       ELSE /\ pc' = IF pc < Len(Prog) THEN pc + 1 ELSE 0
            /\ UNCHANGED << exitCode, inited, okBuilds >>

\* An injected failure of the step: nothing is changed on disk.
Fault ==
    /\ CanFault
    /\ nfaults' = nfaults + 1
    /\ Fail

StartCommand(op, f) ==
    /\ pc = 0
    /\ ncmds < MaxCmds
    /\ cmd' = [op |-> op, fmt |-> f]
    /\ pc' = 1
    /\ exitCode' = 0
    /\ log' = << >>
    /\ stdout' = {}
    /\ tmpPath' = 0
    /\ author' = << >>
    /\ ncmds' = ncmds + 1
    /\ pre' = [cfg |-> cfg, tmp |-> tmp, out |-> out]
    /\ UNCHANGED << envVars, fsVars, nfaults, inited, okBuilds, strVars >>

\* hover init-packaging <format>
StartInit(f) == StartCommand("init", f)

\* hover build <format>
StartBuild(f) == FreeTmp # {} /\ StartCommand("build", f)

\* The guards, checking nothing.
assertPackagingFormatInitialized_Skipped(f) == TRUE
assertCorrectOS_Skipped(f) == TRUE
AlreadyExists_Unprobed(f) == FALSE
\* The build guard asking for the scaffolded manifest, not just the directory.
assertPackagingFormatInitialized_Complete(f) == IsFile(cfg[f], ManifestPath(f))

\* ------------------------------------------------------------ the guards
\* TRUE when the guard lets the command go on.
assertPackagingFormatInitialized(f) == Exists(cfg[f], << >>)
assertCorrectOS(f) == goos = SplitFirst(f, "-")
\* The probe of createPackagingFormatDirectory: TRUE when it refuses.
AlreadyExists(f) == Exists(cfg[f], << >>)
\* exec.LookPath over the search path of this invocation.
LookPathOutcomes(bin) == {TRUE, FALSE}
\* A staging directory at one fixed name, emptied when it is there already.
TempDirChoices_FixedName == {1}

\* The directory ioutil.TempDir returns: a name that does not exist yet.
\* Names are interchangeable; the least free one stands for any of them.
TempDirChoices ==
    IF FreeTmp = {} THEN {} ELSE { CHOOSE i \in FreeTmp : \A j \in FreeTmp : i <= j }
\* Lines a WriteString loop over n lines has written when it fails: the
\* loop can fail at any line; the first and the last one are taken.
PartialWrites(n) == {0, n - 1}

ctlVars == << envVars, cmd, ncmds, pre, strVars >>
locVars == << stdout, author, tmpPath >>
Quiet == UNCHANGED << fsVars, locVars >>
Failed == Fail /\ Quiet /\ UNCHANGED nfaults
Faulted == Fault /\ Quiet
Passed == Proceed /\ UNCHANGED nfaults

\* ------------------------------------------------------ steps of commands
GetPubSpec ==
    /\ At("getPubSpec")
    /\ \/ Passed /\ Quiet
       \/ Faulted
    /\ UNCHANGED ctlVars

AssertHoverInitialized ==
    /\ At("assertHoverInitialized")
    /\ \/ Passed /\ Quiet
       \/ Faulted
    /\ UNCHANGED ctlVars

AssertPackagingFormatInitialized ==
    /\ At("assertPackagingFormatInitialized")
    /\ IF assertPackagingFormatInitialized(cmd.fmt) THEN Passed /\ Quiet ELSE Failed
    /\ UNCHANGED ctlVars

AssertCorrectOS ==
    /\ At("assertCorrectOS")
    /\ IF assertCorrectOS(cmd.fmt) THEN Passed /\ Quiet ELSE Failed
    /\ UNCHANGED ctlVars

\* initLinuxDeb: author := getPubSpec().Author, or user.Current().Username
\* with a warning when that is empty.
ResolveAuthor ==
    /\ At("author")
    /\ IF pubspec.Author # << >>
       THEN /\ author' = pubspec.Author
            /\ Passed
            /\ UNCHANGED << fsVars, stdout, tmpPath >>
       ELSE \/ /\ author' = OSUser
               /\ stdout' = stdout \cup {"Missing author field in pubspec.yaml",
                                         "Using this username from system instead"}
               /\ Passed
               /\ UNCHANGED << fsVars, tmpPath >>
            \/ /\ stdout' = stdout \cup {"Missing author field in pubspec.yaml"}
               /\ Fault
               /\ UNCHANGED << fsVars, author, tmpPath >>
    /\ UNCHANGED ctlVars

CreatePackagingFormatDirectory ==
    /\ At("createPackagingFormatDirectory")
    /\ IF AlreadyExists(cmd.fmt)
       THEN Failed
       ELSE \/ /\ cfg' = [cfg EXCEPT ![cmd.fmt] = MkdirAll(@, << >>)]
               /\ Passed
               /\ UNCHANGED << tmp, out, locVars >>
            \/ Faulted
    /\ UNCHANGED ctlVars

MkdirAllStep ==
    /\ At("mkdirAll")
    /\ IF CanMkdirAll(cfg[cmd.fmt], DirPath(Cur.arg))
       THEN \/ /\ cfg' = [cfg EXCEPT ![cmd.fmt] = MkdirAll(@, DirPath(Cur.arg))]
               /\ Passed
               /\ UNCHANGED << tmp, out, locVars >>
            \/ Faulted
       ELSE Failed
    /\ UNCHANGED ctlVars

CreateStep ==
    /\ At("create")
    /\ LET p == FilePath(cmd.fmt, Cur.arg, pubspec.Name)
       IN  IF CanCreate(cfg[cmd.fmt], p)
           THEN \/ /\ cfg' = [cfg EXCEPT ![cmd.fmt] = Create(@, p)]
                   /\ Passed
                   /\ UNCHANGED << tmp, out, locVars >>
                \/ Faulted
           ELSE Failed
    /\ UNCHANGED ctlVars

\* WriteStep removing what the init has scaffolded when a write fails.
WriteStep_RollsBack ==
    /\ At("write")
    /\ LET p == FilePath(cmd.fmt, Cur.arg, pubspec.Name)
           ls == FileContent(cmd.fmt, Cur.arg, pubspec.Name, pubspec, author)
       IN  IF IsFile(cfg[cmd.fmt], p)
           THEN \/ /\ cfg' = [cfg EXCEPT ![cmd.fmt] = Append_(@, p, ls)]
                   /\ Passed
                   /\ UNCHANGED << tmp, out, locVars >>
                \/ /\ cfg' = [cfg EXCEPT ![cmd.fmt] = EmptyTree]
                   /\ Fault
                   /\ UNCHANGED << tmp, out, locVars >>
           ELSE Failed
    /\ UNCHANGED ctlVars

\* The WriteString loop: all lines, or the first k of them when the write
\* of line k+1 fails.
WriteStep ==
    /\ At("write")
    /\ LET p == FilePath(cmd.fmt, Cur.arg, pubspec.Name)
           ls == FileContent(cmd.fmt, Cur.arg, pubspec.Name, pubspec, author)
       IN  IF IsFile(cfg[cmd.fmt], p)
           THEN \/ /\ cfg' = [cfg EXCEPT ![cmd.fmt] = Append_(@, p, ls)]
                   /\ Passed
                   /\ UNCHANGED << tmp, out, locVars >>
                \/ \E k \in PartialWrites(Len(ls)) :
                      /\ cfg' = [cfg EXCEPT ![cmd.fmt] = Append_(@, p, SubSeq(ls, 1, k))]
                      /\ Fault
                      /\ UNCHANGED << tmp, out, locVars >>
           ELSE Failed
    /\ UNCHANGED ctlVars

CloseStep ==
    /\ At("close")
    /\ \/ Passed /\ Quiet
       \/ Faulted
    /\ UNCHANGED ctlVars

ChmodStep ==
    /\ At("chmod")
    /\ LET p == FilePath(cmd.fmt, Cur.arg, pubspec.Name)
       IN  IF IsFile(cfg[cmd.fmt], p)
           THEN \/ /\ cfg' = [cfg EXCEPT ![cmd.fmt] = Chmod(@, p, "0777")]
                   /\ Passed
                   /\ UNCHANGED << tmp, out, locVars >>
                \/ Faulted
           ELSE Failed
    /\ UNCHANGED ctlVars

PrintInitFinished ==
    /\ At("printInitFinished")
    /\ stdout' = stdout \cup {"has been created"}
    /\ Passed
    /\ UNCHANGED << fsVars, author, tmpPath >>
    /\ UNCHANGED ctlVars

LookPath ==
    /\ At("lookPath")
    /\ \E found \in LookPathOutcomes(Cur.arg) :
          IF found THEN Passed /\ Quiet ELSE Failed
    /\ UNCHANGED ctlVars

GetTemporaryBuildDirectory ==
    /\ At("getTemporaryBuildDirectory")
    /\ \/ \E i \in TempDirChoices :
             /\ tmp' = [tmp EXCEPT ![i] = [owner |-> ncmds, tree |-> EmptyDir]]
             /\ tmpPath' = i
             /\ Passed
             /\ UNCHANGED << cfg, out, stdout, author >>
       \/ Faulted
    /\ UNCHANGED ctlVars

CopySource(f, arg) ==
    CASE arg = "assets" -> AssetsTree
      [] arg = "build" -> BuildOutputTree(pubspec.Name)
      [] arg = "config" -> cfg[f]

\* A failing step that removes the staging directory before exiting.
FailedCleaning ==
    /\ Fail
    /\ tmp' = IF tmpPath # 0 THEN [tmp EXCEPT ![tmpPath] = NoTmp] ELSE tmp
    /\ UNCHANGED << cfg, out, locVars, nfaults >>
FaultedCleaning ==
    /\ Fault
    /\ tmp' = IF tmpPath # 0 THEN [tmp EXCEPT ![tmpPath] = NoTmp] ELSE tmp
    /\ UNCHANGED << cfg, out, locVars >>

\* CopyStep cleaning the staging directory up when the copy fails.
CopyStep_CleansUp ==
    /\ At("copy")
    /\ LET src == CopySource(cmd.fmt, Cur.arg)
           dest == CopyDest(cmd.fmt, Cur.arg, pubspec.Name)
       IN  IF tmpPath # 0 /\ src.kind = "dir" /\ tmp[tmpPath].tree.kind = "dir"
           THEN \/ /\ tmp' = [tmp EXCEPT ![tmpPath].tree = CopyInto(src, @, dest)]
                   /\ Passed
                   /\ UNCHANGED << cfg, out, locVars >>
                \/ FaultedCleaning
           ELSE FailedCleaning
    /\ UNCHANGED ctlVars

\* copy.Copy(src, tmpPath/dest)
CopyStep ==
    /\ At("copy")
    /\ LET src == CopySource(cmd.fmt, Cur.arg)
           dest == CopyDest(cmd.fmt, Cur.arg, pubspec.Name)
       IN  IF tmpPath # 0 /\ src.kind = "dir" /\ tmp[tmpPath].tree.kind = "dir"
           THEN \/ /\ tmp' = [tmp EXCEPT ![tmpPath].tree = CopyInto(src, @, dest)]
                   /\ Passed
                   /\ UNCHANGED << cfg, out, locVars >>
                \/ Faulted
           ELSE Failed
    /\ UNCHANGED ctlVars

\* RunPackager cleaning the staging directory up when the packager fails.
RunPackager_CleansUp ==
    /\ At("run")
    /\ IF tmpPath # 0 /\ CanPackage(cmd.fmt, tmp[tmpPath].tree)
       THEN \/ /\ tmp' = [tmp EXCEPT ![tmpPath].tree = Package(cmd.fmt, @, pubspec.Name)]
               /\ Passed
               /\ UNCHANGED << cfg, out, locVars >>
            \/ FaultedCleaning
       ELSE FailedCleaning
    /\ UNCHANGED ctlVars

\* cmdBuildSnap.Run() / cmdBuildDeb.Run() in tmpPath
RunPackager ==
    /\ At("run")
    /\ IF tmpPath # 0 /\ CanPackage(cmd.fmt, tmp[tmpPath].tree)
       THEN \/ /\ tmp' = [tmp EXCEPT ![tmpPath].tree = Package(cmd.fmt, @, pubspec.Name)]
               /\ Passed
               /\ UNCHANGED << cfg, out, locVars >>
            \/ Faulted
       ELSE Failed
    /\ UNCHANGED ctlVars

Without(t, p) == [t EXCEPT !.files = [q \in DOMAIN @ \ {p} |-> @[q]]]

\* RenameStep copying the file instead of moving it.
RenameStep_Copy ==
    /\ At("rename")
    /\ LET from == renameSource(cmd.fmt, pubspec.Name, pubspec)
           to == PathJoin(<< outputFileName(cmd.fmt, pubspec.Name) >>)
       IN  IF tmpPath # 0 /\ IsFile(tmp[tmpPath].tree, from) /\ IsDir(out[cmd.fmt], << >>)
           THEN \/ /\ out' = [out EXCEPT ![cmd.fmt] =
                                 WithFile(@, to, tmp[tmpPath].tree.files[from])]
                   /\ Passed
                   /\ UNCHANGED << cfg, tmp, locVars >>
                \/ Faulted
           ELSE Failed
    /\ UNCHANGED ctlVars

\* os.Rename(tmpPath/<packaged file>, outputFilePath)
RenameStep ==
    /\ At("rename")
    /\ LET from == renameSource(cmd.fmt, pubspec.Name, pubspec)
           to == PathJoin(<< outputFileName(cmd.fmt, pubspec.Name) >>)
       IN  IF tmpPath # 0 /\ IsFile(tmp[tmpPath].tree, from) /\ IsDir(out[cmd.fmt], << >>)
           THEN \/ /\ out' = [out EXCEPT ![cmd.fmt] =
                                 WithFile(@, to, tmp[tmpPath].tree.files[from])]
                   /\ tmp' = [tmp EXCEPT ![tmpPath].tree = Without(@, from)]
                   /\ Passed
                   /\ UNCHANGED << cfg, locVars >>
                \/ Faulted
           ELSE Failed
    /\ UNCHANGED ctlVars

\* RemoveAllStep removing the packaging configuration folder its error
\* message speaks of, not tmpPath.
RemoveAllStep_Config ==
    /\ At("removeAll")
    /\ \/ /\ cfg' = [cfg EXCEPT ![cmd.fmt] = EmptyTree]
          /\ Passed
          /\ UNCHANGED << tmp, out, locVars >>
       \/ Faulted
    /\ UNCHANGED ctlVars

\* os.RemoveAll(tmpPath)
RemoveAllStep ==
    /\ At("removeAll")
    /\ \/ /\ tmp' = IF tmpPath # 0 THEN [tmp EXCEPT ![tmpPath] = NoTmp] ELSE tmp
          /\ Passed
          /\ UNCHANGED << cfg, out, locVars >>
       \/ Faulted
    /\ UNCHANGED ctlVars

\* --------------------------------------------- outside the program's runs
\* The pubspec is edited: a new version.
BumpVersion ==
    /\ pc = 0
    /\ ncmds < MaxCmds
    /\ \E i \in 1..(Len(Versions) - 1) :
          /\ pubspec.Version = Versions[i]
          /\ pubspec' = [pubspec EXCEPT !.Version = Versions[i + 1]]
    /\ ncmds' = ncmds + 1
    /\ UNCHANGED << goos, cfg, tmp, out, cmd, exitCode, log, stdout, tmpPath, author,
                    nfaults, pre, inited, okBuilds, pc, strVars >>

\* The user removes the format's config directory (or whatever is there).
UserRemove(f) ==
    /\ pc = 0
    /\ ncmds < MaxCmds
    /\ cfg[f].kind # "none"
    /\ cfg' = [cfg EXCEPT ![f] = EmptyTree]
    /\ ncmds' = ncmds + 1
    /\ cmd' = [op |-> "none", fmt |-> f]
    /\ inited' = [inited EXCEPT ![f] = FALSE]
    /\ UNCHANGED << envVars, tmp, out, exitCode, log, stdout, tmpPath, author,
                    nfaults, pre, okBuilds, pc, strVars >>

\* The user edits a scaffolded file.
UserEdit(f) ==
    /\ pc = 0
    /\ ncmds < MaxCmds
    /\ \E p \in DOMAIN cfg[f].files :
          /\ p = ManifestPath(f)
          /\ cfg' = [cfg EXCEPT ![f] = Append_(@, p, << <<"# edited">> >>)]
    /\ ncmds' = ncmds + 1
    /\ cmd' = [op |-> "none", fmt |-> f]
    /\ UNCHANGED << envVars, tmp, out, exitCode, log, stdout, tmpPath, author,
                    nfaults, pre, inited, okBuilds, pc, strVars >>

\* Something that is no directory is put at the format's config path.
UserTouch(f) ==
    /\ pc = 0
    /\ ncmds < MaxCmds
    /\ cfg[f].kind = "none"
    /\ cfg' = [cfg EXCEPT ![f] = PlainFile]
    /\ ncmds' = ncmds + 1
    /\ cmd' = [op |-> "none", fmt |-> f]
    /\ UNCHANGED << envVars, tmp, out, exitCode, log, stdout, tmpPath, author,
                    nfaults, pre, inited, okBuilds, pc, strVars >>

Step ==
    \/ GetPubSpec
    \/ AssertHoverInitialized
    \/ AssertPackagingFormatInitialized
    \/ AssertCorrectOS
    \/ ResolveAuthor
    \/ CreatePackagingFormatDirectory
    \/ MkdirAllStep
    \/ CreateStep
    \/ WriteStep
    \/ CloseStep
    \/ ChmodStep
    \/ PrintInitFinished
    \/ LookPath
    \/ GetTemporaryBuildDirectory
    \/ CopyStep
    \/ RunPackager
    \/ RenameStep
    \/ RemoveAllStep

Next ==
    \/ \E f \in Formats : StartInit(f)
    \/ \E f \in Formats : StartBuild(f)
    \/ Step
    \/ BumpVersion
    \/ \E f \in Formats : UserRemove(f)
    \/ \E f \in Formats : UserEdit(f)
    \/ \E f \in Formats : UserTouch(f)

Spec == Init /\ [][Next]_vars

\* ------------------------------------- removeDashesAndUnderscores on its own
\* No command runs; the function is called on a string, then on its result.
InitStr ==
    /\ goos = <<"linux">>
    /\ pubspec = [Name |-> <<"a", "b">>, Version |-> Versions[1],
                  Author |-> << >>, Description |-> Description]
    /\ cfg = [f \in Formats |-> EmptyTree]
    /\ tmp = [i \in TmpNames |-> NoTmp]
    /\ out = [f \in Formats |-> EmptyDir]
    /\ cmd = [op |-> "none", fmt |-> LinuxSnap]
    /\ pc = 0
    /\ exitCode = 0
    /\ log = << >>
    /\ stdout = {}
    /\ tmpPath = 0
    /\ author = << >>
    /\ ncmds = 0
    /\ nfaults = 0
    /\ pre = [cfg |-> cfg, tmp |-> tmp, out |-> out]
    /\ inited = [f \in Formats |-> FALSE]
    /\ okBuilds = [f \in Formats |-> {}]
    /\ strIn \in Strings
    /\ strOut = << >>

progVars == << envVars, fsVars, cmd, pc, exitCode, log, stdout, tmpPath, author,
              ncmds, nfaults, pre, inited, okBuilds >>

\* removeDashesAndUnderscores(strIn)
CallOnce ==
    /\ strOut = << >>
    /\ strOut' = << removeDashesAndUnderscores(strIn) >>
    /\ UNCHANGED << strIn, progVars >>

\* removeDashesAndUnderscores(removeDashesAndUnderscores(strIn))
CallAgain ==
    /\ Len(strOut) = 1
    /\ strOut' = Append(strOut, removeDashesAndUnderscores(strOut[1]))
    /\ UNCHANGED << strIn, progVars >>

NextStr ==
    \/ CallOnce
    \/ CallAgain

SpecStr == InitStr /\ [][NextStr]_vars

\* ====================================================== checked properties
Finished == pc = 0 /\ cmd.op \in {"init", "build"}
Executed(op) == \E i \in 1..Len(log) : log[i].step.op = op
FailedAt(op) == log # << >> /\ log[Len(log)].step.op = op /\ ~log[Len(log)].ok
FsNow == [cfg |-> cfg, tmp |-> tmp, out |-> out]
\* A name with its dashes and underscores left out, spelled without the
\* program's own function.
Stripped(name) == SelectSeq(name, LAMBDA c : c \notin {"-", "_"})
CanonicalPath(f, name) ==
    << Stripped(name) \o <<"_">> \o GOARCH \o
         (IF f = LinuxSnap THEN <<".snap">> ELSE <<".deb">>) >>

\* C1: a build invoked while nothing exists at the format's config path
\* creates no staging directory at any point and exits non-zero.
C1_BuildUninitializedFails ==
    (cmd.op = "build" /\ pre.cfg[cmd.fmt].kind = "none")
        => /\ tmp = pre.tmp
           /\ tmpPath = 0
           /\ ~Executed("getTemporaryBuildDirectory")
           /\ (pc = 0 => exitCode = 1)

C1_Witness ==
    /\ cmd.op = "build" /\ pre.cfg[cmd.fmt].kind = "none"
    /\ pc = 0 /\ exitCode = 1
    /\ FailedAt("assertPackagingFormatInitialized")

\* C2: an init invoked while a file or directory exists at the format's
\* config path exits non-zero and leaves that path exactly as it was; so a
\* second init after a successful one fails and keeps the (possibly edited)
\* files of the first.
C2_InitExistingFails ==
    (cmd.op = "init" /\ pre.cfg[cmd.fmt].kind # "none")
        => /\ cfg[cmd.fmt] = pre.cfg[cmd.fmt]
           /\ (pc = 0 => exitCode = 1)

C2_Witness ==
    /\ cmd.op = "init" /\ inited[cmd.fmt]
    /\ pre.cfg[cmd.fmt].kind = "dir"
    /\ ManifestPath(cmd.fmt) \in DOMAIN pre.cfg[cmd.fmt].files
    /\ <<"# edited">> = pre.cfg[cmd.fmt].files[ManifestPath(cmd.fmt)].lines[
                            Len(pre.cfg[cmd.fmt].files[ManifestPath(cmd.fmt)].lines)]
    /\ pc = 0 /\ exitCode = 1
    /\ FailedAt("createPackagingFormatDirectory")

\* C3: after a successful linux-deb init with an empty pubspec author the
\* Maintainer line of DEBIAN/control carries the OS user name, and the
\* missing author was warned about.
C3_MaintainerFallsBack ==
    (Finished /\ cmd.op = "init" /\ cmd.fmt = LinuxDeb /\ exitCode = 0
       /\ pubspec.Author = << >>)
        => LET line == cfg[LinuxDeb].files[<< <<"DEBIAN">>, <<"control">> >>].lines[3]
           IN  /\ line[1] = "Maintainer: @"
               /\ \E i \in 2..Len(line) : <<line[i]>> = OSUser
               /\ "Missing author field in pubspec.yaml" \in stdout

\* C4: a build whose native packager is not found on the search path exits
\* non-zero having created no staging directory and having copied, moved
\* or removed nothing.
C4_MissingPackagerFails ==
    (cmd.op = "build" /\ \E i \in 1..Len(log) :
                            log[i].step.op = "lookPath" /\ ~log[i].ok)
        => /\ pc = 0 /\ exitCode = 1
           /\ FailedAt("lookPath")
           /\ FsNow = pre
           /\ tmpPath = 0

C4_Witness ==
    /\ cmd.op = "build" /\ FailedAt("lookPath")
    /\ pre.cfg[cmd.fmt].kind = "dir"
    /\ pc = 0 /\ exitCode = 1

\* C5: on a host whose OS is not the format identifier's prefix before the
\* first "-", init and build exit non-zero and leave the config trees, the
\* staging directories and the output directories as they were.
C5_WrongOSNoEffect ==
    (cmd.op \in {"init", "build"} /\ goos # SplitFirst(cmd.fmt, "-"))
        => /\ FsNow = pre
           /\ (pc = 0 => exitCode = 1)

C5_Witness ==
    /\ goos # <<"linux">>
    /\ cmd.op = "build" /\ FailedAt("assertCorrectOS")
    /\ pc = 0 /\ exitCode = 1

\* C6: once a build of a format has exited 0, the format's output
\* directory holds exactly one file, at the canonical path
\* <strippedName>_<arch>.<ext>, and no staging directory made by a build
\* that exited 0 exists.
C6_OneArtifactNoStaging ==
    \A f \in Formats :
        okBuilds[f] # {}
            => /\ DOMAIN out[f].files = { CanonicalPath(f, pubspec.Name) }
               /\ out[f].dirs = {}
               /\ \A i \in TmpNames :
                     tmp[i].tree.kind # "none" => tmp[i].owner \notin okBuilds[f]

\* init, then two builds that exit 0
C6_Witness ==
    \E f \in Formats :
        /\ inited[f]
        /\ Cardinality(okBuilds[f]) >= 2
        /\ Finished /\ cmd.op = "build" /\ cmd.fmt = f /\ exitCode = 0
        /\ \A i \in TmpNames : tmp[i].tree.kind = "none"

\* C7: the rename of a linux-snap build moves the file
\* <strippedName>_<version>_<arch>.snap of the staging root to
\* <strippedName>_<arch>.snap of the output directory, a path without the
\* version; no file of the version-bearing name is left in the staging
\* root or in the output directory, and none is there when the build has
\* exited 0.
VersionedSnap ==
    << Stripped(pubspec.Name) \o <<"_">> \o pubspec.Version \o <<"_">> \o GOARCH
         \o <<".snap">> >>
C7_SnapRenamedWithoutVersion ==
    [][ /\ (At("rename") /\ cmd.fmt = LinuxSnap /\ log'[Len(log')].ok)
            => /\ VersionedSnap \in DOMAIN tmp[tmpPath].tree.files
               /\ CanonicalPath(LinuxSnap, pubspec.Name) \in DOMAIN out'[LinuxSnap].files
               /\ out'[LinuxSnap].files[CanonicalPath(LinuxSnap, pubspec.Name)]
                    = tmp[tmpPath].tree.files[VersionedSnap]
               /\ VersionedSnap \notin DOMAIN tmp'[tmpPath].tree.files
               /\ VersionedSnap \notin DOMAIN out'[LinuxSnap].files
        /\ (cmd.op = "build" /\ cmd.fmt = LinuxSnap /\ pc > 0 /\ pc' = 0 /\ exitCode' = 0)
            => /\ DOMAIN out'[LinuxSnap].files = { CanonicalPath(LinuxSnap, pubspec.Name) }
               /\ \A i \in TmpNames : tmp'[i].owner # ncmds
      ]_vars

\* a snap of the second version has been built
C7_Witness ==
    /\ Finished /\ cmd.op = "build" /\ cmd.fmt = LinuxSnap /\ exitCode = 0
    /\ pubspec.Version = Versions[2]
    /\ CanonicalPath(LinuxSnap, pubspec.Name) \in DOMAIN out[LinuxSnap].files
    /\ out[LinuxSnap].files[CanonicalPath(LinuxSnap, pubspec.Name)].lines[2]
         = <<"version: '">> \o Versions[2] \o <<"'">>

\* C8: a build attempts the removal of its staging directory only after
\* its artifact is at the canonical output path; so when the removal
\* fails, the build exits non-zero and the artifact is there.
C8_CleanupAfterMove ==
    (cmd.op = "build" /\ Executed("removeAll"))
        => /\ \E i, j \in 1..Len(log) :
                 /\ i < j
                 /\ log[i].step.op = "rename" /\ log[i].ok
                 /\ log[j].step.op = "removeAll"
           /\ CanonicalPath(cmd.fmt, pubspec.Name) \in DOMAIN out[cmd.fmt].files
           /\ FailedAt("removeAll") => (pc = 0 /\ exitCode = 1)

C8_Witness ==
    /\ cmd.op = "build" /\ FailedAt("removeAll")
    /\ pc = 0 /\ exitCode = 1
    /\ CanonicalPath(cmd.fmt, pubspec.Name) \in DOMAIN out[cmd.fmt].files
    /\ tmp[tmpPath].tree.kind = "dir"

\* C9: a failing step ends the command there with a non-zero exit status:
\* the steps run in program order, each at most once, no step runs after a
\* failed one, what the earlier steps put on disk stays, and exit status 0
\* is reached only with every step of the command done successfully.
IsPrefixOf(a, b) == Len(a) <= Len(b) /\ SubSeq(b, 1, Len(a)) = a
KeepsTree(t, u) ==
    /\ t.dirs \subseteq u.dirs
    /\ DOMAIN t.files \subseteq DOMAIN u.files
    /\ \A p \in DOMAIN t.files :
          /\ IsPrefixOf(t.files[p].lines, u.files[p].lines)
          /\ t.files[p].mode = u.files[p].mode
    /\ (t.kind # "none" => u.kind = t.kind)
LogInOrder ==
    cmd.op \in {"init", "build"}
        => /\ Len(log) <= Len(Prog)
           /\ \A i \in 1..Len(log) : log[i].step = Prog[i]
           /\ \A i \in 1..(Len(log) - 1) : log[i].ok
           /\ (pc > 0 => (Len(log) = pc - 1 /\ \A i \in 1..Len(log) : log[i].ok))
           /\ ((log # << >> /\ ~log[Len(log)].ok) => (pc = 0 /\ exitCode = 1))
           /\ ((pc = 0 /\ exitCode = 0)
                 => (Len(log) = Len(Prog) /\ \A i \in 1..Len(log) : log[i].ok))
C9_FailureIsFatal ==
    [][ /\ LogInOrder'
        /\ (pc > 0 /\ Len(log') = Len(log) + 1 /\ ~log'[Len(log')].ok)
            => /\ \A f \in Formats : KeepsTree(cfg[f], cfg'[f])
               /\ tmp' = tmp
               /\ out' = out
               /\ pc' = 0 /\ exitCode' = 1
      ]_vars

\* a late step (the chmod of the wrapper script) has failed
C9_Witness ==
    /\ cmd.op = "init" /\ cmd.fmt = LinuxDeb
    /\ FailedAt("chmod")
    /\ pc = 0 /\ exitCode = 1
    /\ << <<"DEBIAN">>, <<"control">> >> \in DOMAIN cfg[LinuxDeb].files

\* C10: what a build has copied into its staging directory when the native
\* packager is spawned.
Copies == SelectSeq(log, LAMBDA e : e.step.op = "copy")
CopyArgs == [i \in 1..Len(Copies) |-> Copies[i].step.arg]
AboutToPackage == cmd.op = "build" /\ At("run")
StagedAssets ==
    << <<"assets">>, <<"icon.png">> >> \in DOMAIN tmp[tmpPath].tree.files
StagedBuild ==
    (IF cmd.fmt = LinuxSnap
     THEN << <<"build">>, pubspec.Name >>
     ELSE << <<"usr">>, <<"lib">>, pubspec.Name, pubspec.Name >>)
        \in DOMAIN tmp[tmpPath].tree.files
StagedConfig ==
    /\ cfg[cmd.fmt].dirs \subseteq tmp[tmpPath].tree.dirs
    /\ \A p \in DOMAIN cfg[cmd.fmt].files :
          /\ p \in DOMAIN tmp[tmpPath].tree.files
          /\ tmp[tmpPath].tree.files[p] = cfg[cmd.fmt].files[p]

\* C10 as claimed: for both formats the copies are, in this order and all
\* before the packager is spawned, the assets into assets/, the build
\* output into build/ (snap) or usr/lib/<projectName> (deb), the config
\* tree into the staging root.
C10_ThreeCopiesBothFormats ==
    (cmd.op = "build" /\ (At("run") \/ Executed("run")))
        => /\ CopyArgs = <<"assets", "build", "config">>
           /\ \A i \in 1..Len(Copies) : Copies[i].ok
           /\ AboutToPackage => (StagedAssets /\ StagedBuild /\ StagedConfig)

\* C10 amended: linux-snap copies the assets into assets/, the build
\* output into build/ and the config tree into the staging root, in this
\* order; linux-deb copies only the build output into
\* usr/lib/<projectName> and then the config tree into the staging root
\* (no separate copy of the asset bundle); all before the packager is
\* spawned.
C10_CopiesBeforePackager ==
    (cmd.op = "build" /\ (At("run") \/ Executed("run")))
        => /\ CopyArgs = (IF cmd.fmt = LinuxSnap THEN <<"assets", "build", "config">>
                          ELSE <<"build", "config">>)
           /\ \A i \in 1..Len(Copies) : Copies[i].ok
           /\ \A i, j \in 1..Len(log) :
                 (log[i].step.op = "copy" /\ log[j].step.op = "run") => i < j
           /\ AboutToPackage
                => /\ StagedBuild /\ StagedConfig
                   /\ StagedAssets <=> cmd.fmt = LinuxSnap

C10_Witness ==
    /\ AboutToPackage /\ cmd.fmt = LinuxDeb
    /\ inited[LinuxDeb]
    /\ CopyArgs = <<"build", "config">>
    /\ << <<"DEBIAN">>, <<"control">> >> \in DOMAIN tmp[tmpPath].tree.files

\* C11: when the native packager cannot be spawned or exits with an error,
\* the build exits non-zero without attempting the rename or the cleanup:
\* the output directory is as before the build (an earlier artifact is
\* neither replaced nor removed) and the staging directory of this build
\* is still there.
C11_PackagerFailureLeavesAll ==
    (cmd.op = "build" /\ \E i \in 1..Len(log) : log[i].step.op = "run" /\ ~log[i].ok)
        => /\ pc = 0 /\ exitCode = 1
           /\ FailedAt("run")
           /\ ~Executed("rename") /\ ~Executed("removeAll")
           /\ out = pre.out
           /\ tmpPath # 0
           /\ tmp[tmpPath].tree.kind = "dir"

\* the packager fails with an artifact of an earlier build in place
C11_Witness ==
    /\ cmd.op = "build" /\ FailedAt("run")
    /\ pc = 0 /\ exitCode = 1
    /\ CanonicalPath(cmd.fmt, pubspec.Name) \in DOMAIN out[cmd.fmt].files
    /\ tmp[tmpPath].tree.kind = "dir"

\* C12: when one of the staging copies fails, the build exits non-zero,
\* the native packager is never spawned, the output directory is as
\* before and the staging directory of this build is left in place.
C12_CopyFailureLeavesStaging ==
    (cmd.op = "build" /\ \E i \in 1..Len(log) : log[i].step.op = "copy" /\ ~log[i].ok)
        => /\ pc = 0 /\ exitCode = 1
           /\ FailedAt("copy")
           /\ ~Executed("run")
           /\ out = pre.out
           /\ tmpPath # 0
           /\ tmp[tmpPath].tree.kind = "dir"

\* the second copy fails, the first one is in the staging directory
C12_Witness ==
    /\ cmd.op = "build" /\ FailedAt("copy")
    /\ Len(Copies) = 2
    /\ pc = 0 /\ exitCode = 1
    /\ tmp[tmpPath].tree.kind = "dir"
    /\ DOMAIN tmp[tmpPath].tree.files # {}

\* C13: a build, however it ends, leaves the config tree of its format
\* (and of the other one) with exactly the contents it had when the build
\* started.
C13_BuildKeepsConfig ==
    cmd.op = "build" => cfg = pre.cfg

\* two builds have exited 0 over the tree scaffolded once
C13_Witness ==
    /\ Finished /\ cmd.op = "build" /\ exitCode = 0
    /\ Cardinality(okBuilds[cmd.fmt]) >= 2
    /\ inited[cmd.fmt]
    /\ ManifestPath(cmd.fmt) \in DOMAIN cfg[cmd.fmt].files

\* C14: a build that gets past its guards works in a staging directory of
\* its own: the directory did not exist when the build started, it is
\* empty when getTemporaryBuildDirectory returns it, and the staging
\* directories earlier builds left behind are not touched as long as the
\* build runs.
C14_FreshStagingDirectory ==
    (cmd.op = "build" /\ tmpPath # 0)
        => /\ Executed("getTemporaryBuildDirectory")
           /\ pre.tmp[tmpPath].tree.kind = "none"
           /\ \A i \in TmpNames \ {tmpPath} : tmp[i] = pre.tmp[i]
           /\ (log[Len(log)].step.op = "getTemporaryBuildDirectory"
                  => tmp[tmpPath].tree = EmptyDir)

\* a build is handed its directory while the directory of an earlier,
\* failed build is still there with what was copied into it
C14_Witness ==
    /\ cmd.op = "build" /\ tmpPath # 0
    /\ log[Len(log)].step.op = "getTemporaryBuildDirectory"
    /\ \E j \in TmpNames \ {tmpPath} :
          /\ pre.tmp[j].tree.kind = "dir"
          /\ DOMAIN pre.tmp[j].tree.files # {}

\* The steps of the running init on files, by position in the program.
FileSteps == {"create", "write", "close"}
ScaffoldFailedAt(i) ==
    /\ cmd.op = "init"
    /\ i \in 1..Len(log)
    /\ log[i].step.op \in FileSteps /\ ~log[i].ok

\* C15: when creating, writing or closing a scaffolded file fails, init
\* exits non-zero at that step; no file later in the scaffolding order is
\* created; the directories made and the files created and written earlier
\* by this init are still on disk, the written ones with all their lines,
\* and a file whose write failed is still there.
C15_InitFailureKeepsPartialTree ==
    \A i \in 1..Len(log) :
        ScaffoldFailedAt(i)
            => LET f == cmd.fmt
                   path(j) == FilePath(f, Prog[j].arg, pubspec.Name)
               IN  /\ Len(log) = i /\ pc = 0 /\ exitCode = 1
                   /\ cfg[f].kind = "dir"
                   /\ \A j \in (i + 1)..Len(Prog) :
                         Prog[j].op = "create" => ~Exists(cfg[f], path(j))
                   /\ \A j \in 1..(i - 1) :
                         /\ Prog[j].op = "mkdirAll" => IsDir(cfg[f], DirPath(Prog[j].arg))
                         /\ Prog[j].op = "create" => IsFile(cfg[f], path(j))
                         /\ (Prog[j].op = "write" /\ Prog[j].arg # Prog[i].arg)
                               => Len(cfg[f].files[path(j)].lines) =
                                    Len(FileContent(f, Prog[j].arg, pubspec.Name,
                                                    pubspec, author))

\* a write fails in the middle of the scaffolding order: one file is
\* complete, one is partly written, one was never created
C15_Witness ==
    \E i \in 1..Len(log) :
        /\ ScaffoldFailedAt(i) /\ log[i].step.op = "write"
        /\ \E j \in 1..(i - 2) : Prog[j].op = "write"
        /\ \E j \in (i + 1)..Len(Prog) : Prog[j].op = "create"
        /\ cfg[cmd.fmt].files[FilePath(cmd.fmt, Prog[i].arg, pubspec.Name)].lines # << >>

\* C16: for every string s, removeDashesAndUnderscores(s) holds no '-' and
\* no '_', holds the other characters of s in their order, and is returned
\* unchanged when the function is applied to it again.
C16_StripsAndIsIdempotent ==
    /\ Len(strOut) >= 1
          => /\ \A i \in 1..Len(strOut[1]) : strOut[1][i] \notin {"-", "_"}
             /\ strOut[1] = Stripped(strIn)
    /\ Len(strOut) = 2 => strOut[2] = strOut[1]

\* applied twice to a string with a dash, an underscore and a letter
C16_Witness ==
    /\ Len(strOut) = 2
    /\ \E i, j, k \in 1..Len(strIn) :
          strIn[i] = "-" /\ strIn[j] = "_" /\ strIn[k] = "a"
    /\ strOut[1] = <<"a">>

\* The format's config directory is there, left by an init that did not
\* finish (no init of the format has exited 0 since it was last removed,
\* and the init that made it is not running any more).
HalfScaffolded(f) ==
    /\ cfg[f].kind = "dir"
    /\ ~inited[f]
    /\ ~(pc > 0 /\ cmd.op = "init" /\ cmd.fmt = f /\ pre.cfg[f].kind = "none")

\* C17: a half-scaffolded format stays so under every step of the
\* program: the probe of init refuses it, so an init that reaches
\* createPackagingFormatDirectory exits 1 there without touching the
\* tree, while the guard of build lets the incomplete tree through; only
\* a removal of the directory from outside, with no command running,
\* ends the state.
C17_HalfScaffoldedIsStuck ==
    [][\A f \in Formats :
          HalfScaffolded(f)
             => /\ AlreadyExists(f)
                /\ assertPackagingFormatInitialized(f)
                /\ (At("createPackagingFormatDirectory") /\ cmd.op = "init" /\ cmd.fmt = f)
                      => pc' = 0 /\ exitCode' = 1 /\ cfg' = cfg
                /\ (pc > 0 \/ pc' > 0)
                      => /\ cfg'[f] = cfg[f]
                         /\ HalfScaffolded(f)'
                /\ \/ HalfScaffolded(f)'
                   \/ pc = 0 /\ pc' = 0 /\ cfg'[f].kind = "none"]_vars

\* a second init of a format whose first init failed before the manifest
\* was created is turned away at the probe, with the tree still incomplete
C17_Witness ==
    /\ cmd.op = "init" /\ FailedAt("createPackagingFormatDirectory")
    /\ HalfScaffolded(cmd.fmt)
    /\ ~IsFile(cfg[cmd.fmt], ManifestPath(cmd.fmt))
    /\ assertPackagingFormatInitialized(cmd.fmt)

\* The files of the scaffolded linux-deb tree under dir.
FilesUnder(dir) ==
    { p \in DOMAIN cfg[LinuxDeb].files : Len(p) = Len(dir) + 1 /\ Parent(p) = dir }

\* C18: after a linux-deb init that exited 0, the Exec line of the desktop
\* entry is /usr/bin/ followed by the name of the wrapper script the init
\* created under usr/bin, whatever the project name.
C18_ExecNamesWrapper ==
    (Finished /\ cmd.op = "init" /\ cmd.fmt = LinuxDeb /\ exitCode = 0)
        => \A d \in FilesUnder(DirPath("applications")) :
              \E w \in FilesUnder(DirPath("bin")) :
                 cfg[LinuxDeb].files[d].lines[6] = <<"Exec=/usr/bin/">> \o w[Len(w)]

\* C19: a linux-deb init that cannot determine the OS user (asked for
\* because the pubspec has no author) exits non-zero at that point with
\* the file system as it was when the init started: no config directory
\* is left to block the next init.
C19_NoUserNoTrace ==
    (cmd.op = "init" /\ cmd.fmt = LinuxDeb
       /\ \E i \in 1..Len(log) : log[i].step.op = "author" /\ ~log[i].ok)
        => /\ pc = 0 /\ exitCode = 1
           /\ FailedAt("author")
           /\ pubspec.Author = << >>
           /\ ~Executed("createPackagingFormatDirectory")
           /\ FsNow = pre
           /\ pre.cfg[LinuxDeb].kind = "none" => ~AlreadyExists(LinuxDeb)

\* the lookup fails in an init of a format that was not scaffolded yet
C19_Witness ==
    /\ cmd.op = "init" /\ cmd.fmt = LinuxDeb
    /\ FailedAt("author")
    /\ pre.cfg[LinuxDeb].kind = "none"
    /\ ~AlreadyExists(LinuxDeb)
    /\ "Missing author field in pubspec.yaml" \in stdout

====
